---- MODULE Spec2Model ----
(***************************************************************************)
(* render_timer (src/render_timer.h, the class at lines 116-208): a frame  *)
(* pacer.  start() launches timer_loop on a std::thread, the loop sets the *)
(* atomic_flag m_render_ready under m_mutex and notifies m_cv, consumers   *)
(* block in can_render(), stop() clears m_running, notifies and joins.     *)
(* Every step below is one access to shared memory, or one call of the     *)
(* thread library, of that class.                                          *)
(***************************************************************************)
EXTENDS Integers, FiniteSets, Sequences, TLC

\* ---------------------------------------------------------------- bounds
\* contexts that call can_render()
NumConsumers == 2
\* contexts that call start(), stop(), set_fps(), get_render_interval()
NumControllers == 2
\* std::thread objects that can exist at the same time
MaxThreads == 3
\* interval corrections the loop may perform
MaxOverruns == 2
\* a work duration (ms) longer than every nominal interval
OverWork == 40
\* corrections followed in the runaway scenario (the 32-bit interval doubles
\* in magnitude on each, so this many leave the int range)
MaxRunaway == 32

\* ------------------------------------------------------ program constants
DefaultFps == 60
Millis == 1000
\* int m_render_interval
IntMax == 2147483647

Consumers   == 1..NumConsumers
Controllers == 1..NumControllers
Threads     == 1..MaxThreads
FpsInputs   == {-1, 0, 30, 60}          \* arguments of set_fps
WorkSet     == {0, OverWork}            \* frame_duration.count() of one iteration

VARIABLES
    m_fps, m_render_interval, m_running, m_start_time, m_render_ready, m_thread,
    mutex,        \* owner of m_mutex
    cpc,          \* consumer -> position inside can_render()
    lpc,          \* thread   -> position inside timer_loop()
    l_work, l_sleep, l_extra, l_new,   \* timer_loop's locals, per thread
    kpc,          \* controller -> position inside start()/stop()/set_fps()
    k_thread,     \* controller -> the temporary std::thread of start()
    k_cfg,        \* controller -> F when the last call on the pacer was its accepted set_fps(F), else 0
    k_rej,        \* controllers whose last call was a set_fps that was not accepted
    terminated,   \* std::terminate() was called
    thrown,       \* a call was left by std::system_error
    overruns,     \* interval corrections performed so far
    tick_pending, \* the loop produced a tick since the last can_render() return
    idle_tick,    \* the last tick was produced while no consumer was inside can_render()
    stop_seen,    \* some stop() has executed its exchange
    absorbed,     \* some start() found m_running set and launched nothing
    quiet,        \* a stop() that found the pacer running returned, no start() since
    at_stop,      \* consumers that were blocked in m_cv.wait when stop() was called
    at_tick       \* the consumers, two or more, that were blocked in m_cv.wait together when
                  \* the last tick notified, less those that have returned

prog  == << m_fps, m_render_interval, m_running, m_start_time, m_render_ready, m_thread, mutex >>
pcs   == << cpc, lpc, kpc >>
locs  == << l_work, l_sleep, l_extra, l_new, k_thread >>
fail  == << terminated, thrown >>
ghost == << k_cfg, k_rej, overruns, tick_pending, idle_tick, stop_seen, absorbed, quiet, at_stop, at_tick >>
vars  == << prog, pcs, locs, fail, ghost >>

\* --------------------------------------------------------------- helpers
Owner(kind, id) == [kind |-> kind, id |-> id]
Free == Owner("free", 0)

\* std::mutex::lock() goes through only when nobody owns the mutex
LockableAlways(m) == TRUE
Lockable(m) == m = Free

\* C++ integer division truncates toward zero
Quot(a, b) ==
    IF b = 0 THEN 0
    ELSE LET q == (IF a < 0 THEN -a ELSE a) \div (IF b < 0 THEN -b ELSE b)
         IN IF (a < 0) = (b < 0) THEN q ELSE -q

\* int(int64(a) - b) for 0 <= b <= IntMax: the 64-bit difference of
\* m_render_interval -= extra_duration.count(), converted back to int
IntMin == -IntMax - 1
SubInt(a, b) == IF a >= IntMin + b THEN a - b ELSE (a - IntMin) + (IntMax - b) + 1

\* an exchange that reports "was clear" whatever the flag held
ExchangeBlind(flag, v) == [prev |-> FALSE, now |-> v]

\* std::atomic<bool>::exchange: the previous value and the stored one
Exchange(flag, v) == [prev |-> flag, now |-> v]

\* std::atomic_flag::test_and_set: the previous value, and the flag is set
TestAndSet(flag) == [prev |-> flag, now |-> TRUE]

\* a guard that forgets to reject non-positive frequencies
AcceptsAnySign(fps, cur) == fps # cur

\* the guard of set_fps
Accepts(fps, cur) == fps > 0 /\ fps # cur

\* a join that returns without waiting for the thread
JoinedEarly(t) == TRUE

\* std::thread::join returns once the thread function has returned
Joined(t) == lpc[t] = "done"

Live    == {t \in Threads : lpc[t] \notin {"none", "done"}}
Inside  == {c \in Consumers : cpc[c] # "idle"}
Blocked == {c \in Consumers : cpc[c] = "waiting"}
Starting == {k \in Controllers : kpc[k] \in {"start_spawn", "start_assign"}}

\* m_cv.notify_all(): every context blocked in m_cv.wait is unblocked
NotifyAll == [c \in Consumers |-> IF cpc[c] = "waiting" THEN "woken" ELSE cpc[c]]

Init ==
    /\ m_fps = DefaultFps
    /\ m_render_interval = Quot(Millis, DefaultFps)
    /\ m_running = FALSE
    /\ m_start_time = 0
    /\ m_render_ready = FALSE
    /\ m_thread = 0
    /\ mutex = Free
    /\ cpc = [c \in Consumers |-> "idle"]
    /\ lpc = [t \in Threads |-> "none"]
    /\ l_work = [t \in Threads |-> 0]
    /\ l_sleep = [t \in Threads |-> 0]
    /\ l_extra = [t \in Threads |-> 0]
    /\ l_new = [t \in Threads |-> 0]
    /\ kpc = [k \in Controllers |-> "idle"]
    /\ k_thread = [k \in Controllers |-> 0]
    /\ k_cfg = [k \in Controllers |-> 0]
    /\ k_rej = {}
    /\ terminated = FALSE
    /\ thrown = FALSE
    /\ overruns = 0
    /\ tick_pending = FALSE
    /\ idle_tick = FALSE
    /\ stop_seen = FALSE
    /\ absorbed = FALSE
    /\ quiet = FALSE
    /\ at_stop = {}
    /\ at_tick = {}

\* ------------------------------------------------------------ can_render
\* std::unique_lock<std::mutex> lock(m_mutex)
CanRenderEnter(c) ==
    /\ ~terminated
    /\ cpc[c] = "idle"
    /\ Lockable(mutex)
    /\ mutex' = Owner("consumer", c)
    /\ cpc' = [cpc EXCEPT ![c] = "pred"]
    /\ UNCHANGED << m_fps, m_render_interval, m_running, m_start_time, m_render_ready, m_thread >>
    /\ UNCHANGED << lpc, kpc, locs, fail, ghost >>

\* one evaluation of the predicate of m_cv.wait(lock, pred); when it is false
\* the wait releases the mutex and blocks
WaitPredicate(c) ==
    /\ ~terminated
    /\ cpc[c] = "pred"
    /\ LET r == TestAndSet(m_render_ready) IN
        /\ m_render_ready' = r.now
        /\ IF r.prev
             THEN /\ cpc' = [cpc EXCEPT ![c] = "clear"]
                  /\ UNCHANGED mutex
             ELSE /\ cpc' = [cpc EXCEPT ![c] = "waiting"]
                  /\ mutex' = Free
    /\ UNCHANGED << m_fps, m_render_interval, m_running, m_start_time, m_thread >>
    /\ UNCHANGED << lpc, kpc, locs, fail, ghost >>

\* m_cv.wait may unblock without a notification
SpuriousWakeup(c) ==
    /\ ~terminated
    /\ cpc[c] = "waiting"
    /\ cpc' = [cpc EXCEPT ![c] = "woken"]
    /\ UNCHANGED << prog, lpc, kpc, locs, fail, ghost >>

\* an unblocked wait takes the mutex again before it evaluates the predicate
WaitReacquire(c) ==
    /\ ~terminated
    /\ cpc[c] = "woken"
    /\ Lockable(mutex)
    /\ mutex' = Owner("consumer", c)
    /\ cpc' = [cpc EXCEPT ![c] = "pred"]
    /\ UNCHANGED << m_fps, m_render_interval, m_running, m_start_time, m_render_ready, m_thread >>
    /\ UNCHANGED << lpc, kpc, locs, fail, ghost >>

\* m_render_ready.clear(); return true;  (the unique_lock unlocks)
CanRenderReturn(c) ==
    /\ ~terminated
    /\ cpc[c] = "clear"
    /\ m_render_ready' = FALSE
    /\ mutex' = Free
    /\ cpc' = [cpc EXCEPT ![c] = "idle"]
    /\ tick_pending' = FALSE
    /\ at_stop' = at_stop \ {c}
    /\ at_tick' = at_tick \ {c}
    /\ UNCHANGED << m_fps, m_render_interval, m_running, m_start_time, m_thread >>
    /\ UNCHANGED << lpc, kpc, locs, fail >>
    /\ UNCHANGED << k_cfg, k_rej, overruns, idle_tick, stop_seen, absorbed, quiet >>

\* ------------------------------------------------------------ timer_loop
\* a loop that never looks at the flag
LoopForever(running) == "lock"

\* while (m_running.load()): into the body, or out of timer_loop
LoopCond(running) == IF running THEN "lock" ELSE "done"

LoopCheck(t) ==
    /\ ~terminated
    /\ lpc[t] = "check"
    /\ lpc' = [lpc EXCEPT ![t] = LoopCond(m_running)]
    /\ UNCHANGED << prog, cpc, kpc, locs, fail, ghost >>

\* std::lock_guard<std::mutex> lock(m_mutex)
LoopLock(t) ==
    /\ ~terminated
    /\ lpc[t] = "lock"
    /\ Lockable(mutex)
    /\ mutex' = Owner("loop", t)
    /\ lpc' = [lpc EXCEPT ![t] = "set"]
    /\ UNCHANGED << m_fps, m_render_interval, m_running, m_start_time, m_render_ready, m_thread >>
    /\ UNCHANGED << cpc, kpc, locs, fail, ghost >>

\* m_render_ready.test_and_set(); the lock_guard unlocks: the tick
LoopSet(t) ==
    /\ ~terminated
    /\ lpc[t] = "set"
    /\ m_render_ready' = TestAndSet(m_render_ready).now
    /\ mutex' = Free
    /\ lpc' = [lpc EXCEPT ![t] = "notify"]
    /\ tick_pending' = TRUE
    /\ idle_tick' = (Inside = {})
    /\ at_tick' = {}
    /\ UNCHANGED << m_fps, m_render_interval, m_running, m_start_time, m_thread >>
    /\ UNCHANGED << cpc, kpc, locs, fail >>
    /\ UNCHANGED << k_cfg, k_rej, overruns, stop_seen, absorbed, quiet, at_stop >>

\* m_cv.notify_all()
LoopNotify(t) ==
    /\ ~terminated
    /\ lpc[t] = "notify"
    /\ at_tick' = IF Cardinality(Blocked) >= 2 THEN Blocked ELSE {}
    /\ cpc' = NotifyAll
    /\ lpc' = [lpc EXCEPT ![t] = "measure"]
    /\ UNCHANGED << prog, kpc, locs, fail >>
    /\ UNCHANGED << k_cfg, k_rej, overruns, tick_pending, idle_tick, stop_seen, absorbed, quiet, at_stop >>

\* frame_duration = frame_end - frame_start (w ms);
\* sleep_duration = milliseconds(m_render_interval) - frame_duration
LoopMeasure(t, w) ==
    /\ ~terminated
    /\ lpc[t] = "measure"
    /\ l_work' = [l_work EXCEPT ![t] = w]
    /\ l_sleep' = [l_sleep EXCEPT ![t] = m_render_interval - w]
    /\ lpc' = [lpc EXCEPT ![t] = "extra"]
    /\ UNCHANGED << prog, cpc, kpc, l_extra, l_new, k_thread, fail, ghost >>

\* where the iteration goes once the interval is settled:
\* if (sleep_duration > 0) sleep_for(sleep_duration)
AfterAdjust(sleep) == IF sleep > 0 THEN "sleeping" ELSE "check"

\* extra_duration = frame_duration - milliseconds(m_render_interval);
\* if (extra_duration > 0) ...
LoopExtraUpTo(t, cap) ==
    /\ ~terminated
    /\ lpc[t] = "extra"
    /\ LET extra == l_work[t] - m_render_interval IN
         IF extra > 0
           THEN /\ overruns < cap
                /\ overruns' = overruns + 1
                /\ l_extra' = [l_extra EXCEPT ![t] = extra]
                /\ lpc' = [lpc EXCEPT ![t] = "adj_read"]
           ELSE /\ lpc' = [lpc EXCEPT ![t] = AfterAdjust(l_sleep[t])]
                /\ UNCHANGED << overruns, l_extra >>
    /\ l_work' = [l_work EXCEPT ![t] = 0]
    /\ UNCHANGED << prog, cpc, kpc, l_sleep, l_new, k_thread, fail >>
    /\ UNCHANGED << k_cfg, k_rej, tick_pending, idle_tick, stop_seen, absorbed, quiet, at_stop, at_tick >>

LoopExtra(t) == LoopExtraUpTo(t, MaxOverruns)

\* m_render_interval -= extra_duration.count(): the read and the subtraction
LoopAdjRead(t) ==
    /\ ~terminated
    /\ lpc[t] = "adj_read"
    /\ l_new' = [l_new EXCEPT ![t] = SubInt(m_render_interval, l_extra[t])]
    /\ l_extra' = [l_extra EXCEPT ![t] = 0]
    /\ lpc' = [lpc EXCEPT ![t] = "adj_write"]
    /\ UNCHANGED << prog, cpc, kpc, l_work, l_sleep, k_thread, fail, ghost >>

\* m_render_interval -= extra_duration.count(): the write
LoopAdjWrite(t) ==
    /\ ~terminated
    /\ lpc[t] = "adj_write"
    /\ m_render_interval' = l_new[t]
    /\ l_new' = [l_new EXCEPT ![t] = 0]
    /\ lpc' = [lpc EXCEPT ![t] = AfterAdjust(l_sleep[t])]
    /\ UNCHANGED << m_fps, m_running, m_start_time, m_render_ready, m_thread, mutex >>
    /\ UNCHANGED << cpc, kpc, l_work, l_sleep, l_extra, k_thread, fail, ghost >>

\* std::this_thread::sleep_for(sleep_duration) returns
LoopWake(t) ==
    /\ ~terminated
    /\ lpc[t] = "sleeping"
    /\ l_sleep' = [l_sleep EXCEPT ![t] = 0]
    /\ lpc' = [lpc EXCEPT ![t] = "check"]
    /\ UNCHANGED << prog, cpc, kpc, l_work, l_extra, l_new, k_thread, fail, ghost >>

\* ----------------------------------------------------------------- start
\* if (!m_running.exchange(true))
StartExchange(k) ==
    /\ ~terminated
    /\ kpc[k] = "idle"
    /\ LET r == Exchange(m_running, TRUE) IN
        /\ m_running' = r.now
        /\ kpc' = [kpc EXCEPT ![k] = IF r.prev THEN "idle" ELSE "start_spawn"]
        /\ quiet' = IF r.prev THEN quiet ELSE FALSE
        /\ absorbed' = (absorbed \/ r.prev)
    /\ k_cfg' = [k_cfg EXCEPT ![k] = 0]
    /\ k_rej' = k_rej \ {k}
    /\ UNCHANGED << m_fps, m_render_interval, m_start_time, m_render_ready, m_thread, mutex >>
    /\ UNCHANGED << cpc, lpc, locs, fail >>
    /\ UNCHANGED << overruns, tick_pending, idle_tick, stop_seen, at_stop, at_tick >>

\* the first thread object that is not in use
FreeThread == CHOOSE t \in Threads : lpc[t] = "none" /\ \A u \in Threads : lpc[u] = "none" => t <= u

\* m_start_time = now(); std::thread(&render_timer::timer_loop, this):
\* the new thread exists and runs from here on
StartSpawn(k) ==
    /\ ~terminated
    /\ kpc[k] = "start_spawn"
    /\ \E t \in Threads : lpc[t] = "none"
    /\ m_start_time' = 1 - m_start_time
    /\ lpc' = [lpc EXCEPT ![FreeThread] = "check"]
    /\ k_thread' = [k_thread EXCEPT ![k] = FreeThread]
    /\ kpc' = [kpc EXCEPT ![k] = "start_assign"]
    /\ UNCHANGED << m_fps, m_render_interval, m_running, m_render_ready, m_thread, mutex >>
    /\ UNCHANGED << cpc, l_work, l_sleep, l_extra, l_new, fail, ghost >>

\* m_thread = <the temporary>: std::terminate() when m_thread is joinable
StartAssign(k) ==
    /\ ~terminated
    /\ kpc[k] = "start_assign"
    /\ IF m_thread # 0
         THEN /\ terminated' = TRUE
              /\ UNCHANGED << m_thread, k_thread, kpc >>
         ELSE /\ m_thread' = k_thread[k]
              /\ k_thread' = [k_thread EXCEPT ![k] = 0]
              /\ kpc' = [kpc EXCEPT ![k] = "idle"]
              /\ UNCHANGED terminated
    /\ UNCHANGED << m_fps, m_render_interval, m_running, m_start_time, m_render_ready, mutex >>
    /\ UNCHANGED << cpc, lpc, l_work, l_sleep, l_extra, l_new, thrown, ghost >>

\* ------------------------------------------------------------------ stop
\* if (m_running.exchange(false))
StopExchange(k) ==
    /\ ~terminated
    /\ kpc[k] = "idle"
    /\ LET r == Exchange(m_running, FALSE) IN
        /\ m_running' = r.now
        /\ kpc' = [kpc EXCEPT ![k] = IF r.prev THEN "stop_notify" ELSE "idle"]
        /\ at_stop' = IF r.prev THEN Blocked ELSE at_stop
    /\ stop_seen' = TRUE
    /\ k_cfg' = [k_cfg EXCEPT ![k] = 0]
    /\ k_rej' = k_rej \ {k}
    /\ UNCHANGED << m_fps, m_render_interval, m_start_time, m_render_ready, m_thread, mutex >>
    /\ UNCHANGED << cpc, lpc, locs, fail >>
    /\ UNCHANGED << overruns, tick_pending, idle_tick, absorbed, quiet, at_tick >>

\* m_cv.notify_all()
StopNotify(k) ==
    /\ ~terminated
    /\ kpc[k] = "stop_notify"
    /\ cpc' = NotifyAll
    /\ kpc' = [kpc EXCEPT ![k] = "stop_join"]
    /\ UNCHANGED << prog, lpc, locs, fail, ghost >>

\* m_thread.join(): std::system_error when m_thread is not joinable, else it
\* returns when the thread has ended, and m_thread is no longer joinable
StopJoin(k) ==
    /\ ~terminated
    /\ kpc[k] = "stop_join"
    /\ IF m_thread = 0
         THEN /\ thrown' = TRUE
              /\ UNCHANGED << m_thread, lpc, quiet >>
         ELSE /\ Joined(m_thread)
              /\ lpc' = [lpc EXCEPT ![m_thread] = IF @ = "done" THEN "none" ELSE @]
              /\ m_thread' = 0
              /\ quiet' = (Starting = {})
              /\ UNCHANGED thrown
    /\ kpc' = [kpc EXCEPT ![k] = "idle"]
    /\ UNCHANGED << m_fps, m_render_interval, m_running, m_start_time, m_render_ready, mutex >>
    /\ UNCHANGED << cpc, locs, terminated >>
    /\ UNCHANGED << k_cfg, k_rej, overruns, tick_pending, idle_tick, stop_seen, absorbed, at_stop, at_tick >>

\* ------------------------------------------------- set_fps, get_render_interval
\* if (fps > 0 && fps != m_fps) { m_fps = fps;
SetFps(k, fps) ==
    /\ ~terminated
    /\ kpc[k] = "idle"
    /\ IF Accepts(fps, m_fps)
         THEN /\ m_fps' = fps
              /\ kpc' = [kpc EXCEPT ![k] = "fps_interval"]
              /\ k_cfg' = [j \in Controllers |-> IF j = k THEN fps ELSE 0]
              /\ k_rej' = k_rej \ {k}
         ELSE /\ k_cfg' = [k_cfg EXCEPT ![k] = 0]
              /\ k_rej' = k_rej \cup {k}
              /\ UNCHANGED << m_fps, kpc >>
    /\ UNCHANGED << m_render_interval, m_running, m_start_time, m_render_ready, m_thread, mutex >>
    /\ UNCHANGED << cpc, lpc, locs, fail >>
    /\ UNCHANGED << overruns, tick_pending, idle_tick, stop_seen, absorbed, quiet, at_stop, at_tick >>

\* m_render_interval = 1000 / m_fps; }
SetFpsInterval(k) ==
    /\ ~terminated
    /\ kpc[k] = "fps_interval"
    /\ m_render_interval' = Quot(Millis, m_fps)
    /\ kpc' = [kpc EXCEPT ![k] = "idle"]
    /\ UNCHANGED << m_fps, m_running, m_start_time, m_render_ready, m_thread, mutex >>
    /\ UNCHANGED << cpc, lpc, locs, fail, ghost >>

\* return m_render_interval;
GetRenderInterval(k) ==
    /\ ~terminated
    /\ kpc[k] = "idle"
    /\ k_cfg' = [k_cfg EXCEPT ![k] = 0]
    /\ k_rej' = k_rej \ {k}
    /\ UNCHANGED << prog, pcs, locs, fail >>
    /\ UNCHANGED << overruns, tick_pending, idle_tick, stop_seen, absorbed, quiet, at_stop, at_tick >>

\* --------------------------------------------------------- specification
Consumer(c) ==
    \/ CanRenderEnter(c)
    \/ WaitPredicate(c)
    \/ SpuriousWakeup(c)
    \/ WaitReacquire(c)
    \/ CanRenderReturn(c)

Loop(t) ==
    \/ LoopCheck(t)
    \/ LoopLock(t)
    \/ LoopSet(t)
    \/ LoopNotify(t)
    \/ \E w \in WorkSet : LoopMeasure(t, w)
    \/ LoopExtra(t)
    \/ LoopAdjRead(t)
    \/ LoopAdjWrite(t)
    \/ LoopWake(t)

Controller(k) ==
    \/ StartExchange(k)
    \/ StartSpawn(k)
    \/ StartAssign(k)
    \/ StopExchange(k)
    \/ StopNotify(k)
    \/ StopJoin(k)
    \/ \E fps \in FpsInputs : SetFps(k, fps)
    \/ SetFpsInterval(k)
    \/ GetRenderInterval(k)

Next ==
    \/ \E c \in Consumers : Consumer(c)
    \/ \E t \in Threads : Loop(t)
    \/ \E k \in Controllers : Controller(k)

Spec == Init /\ [][Next]_vars

\* The signalling protocol: consumers, the loop, and one host context that
\* starts and stops the pacer; the work of an iteration takes less than a
\* millisecond and the frequency stays as constructed.
LoopPace(t) ==
    \/ LoopCheck(t)
    \/ LoopLock(t)
    \/ LoopSet(t)
    \/ LoopNotify(t)
    \/ LoopMeasure(t, 0)
    \/ LoopExtra(t)
    \/ LoopWake(t)

Lifecycle(k) ==
    \/ StartExchange(k)
    \/ StartSpawn(k)
    \/ StartAssign(k)
    \/ StopExchange(k)
    \/ StopNotify(k)
    \/ StopJoin(k)

\* the host application: one context starts and stops the pacer
Host == CHOOSE k \in Controllers : \A j \in Controllers : k <= j

NextPace ==
    \/ \E c \in Consumers : Consumer(c)
    \/ \E t \in Threads : LoopPace(t)
    \/ Lifecycle(Host)

SpecPace == Init /\ [][NextPace]_vars

\* start() and stop() with the loop, no consumer
NextLife ==
    \/ \E t \in Threads : LoopPace(t)
    \/ \E k \in Controllers : Lifecycle(k)

SpecLife == Init /\ [][NextLife]_vars

\* The interval: configuration from every controller against the running
\* loop's correction; no consumer, and the host starts the pacer and leaves it
\* running
Configure(k) ==
    \/ \E fps \in FpsInputs : SetFps(k, fps)
    \/ SetFpsInterval(k)
    \/ GetRenderInterval(k)

HostStart ==
    \/ StartExchange(Host)
    \/ StartSpawn(Host)
    \/ StartAssign(Host)

NextInterval ==
    \/ \E t \in Threads : Loop(t)
    \/ \E k \in Controllers : Configure(k)
    \/ HostStart

SpecInterval == Init /\ [][NextInterval]_vars

\* ================================================================ claims

\* C1: every consumer that was blocked in can_render() when stop() was called
\* returns; after stop() has returned none of them is still blocked in the wait
\* (nothing is left to notify it: the loop has been joined).
C1StopReleasesAll == quiet => at_stop \cap Blocked = {}

\* C2: once a stop() that found the pacer running has returned, and until a
\* later start(), no execution of timer_loop is alive, so the loop sets no
\* readiness flag and notifies nobody.
C2NoLoopAfterStop == quiet => Live = {}

\* a stop() has returned after the loop had produced a tick that nobody consumed
C2Witness == quiet /\ tick_pending /\ Live = {} /\ m_thread = 0

\* C3: as long as stop() has not been called, start() called again, from the
\* same or from another context, leaves exactly one timer_loop alive: never two,
\* and no second thread is assigned to the joinable m_thread.
C3OneLoop == ~stop_seen => Cardinality(Live) <= 1 /\ ~terminated

\* a second start() found the pacer running while the loop is alive
C3Witness == ~stop_seen /\ absorbed /\ Cardinality(Live) = 1

\* C4: concurrent start() and stop() calls are resolved safely by the exchange
\* on m_running: at most one timer_loop is alive, no thread is assigned to
\* m_thread while it is still joinable (std::terminate), and stop() never joins
\* an m_thread that holds no thread (std::system_error).
C4SafeStartStop == Cardinality(Live) <= 1 /\ ~terminated /\ ~thrown

\* C5: can_render() returns once per tick: while stop() has not been called, a
\* call returns only when the loop has produced a tick since the last return.
C5OncePerTick ==
    [][\A c \in Consumers : CanRenderReturn(c) /\ ~stop_seen => tick_pending]_vars

\* C6: a tick is broadcast: the consumers, two or more, that were blocked in
\* can_render() when a tick notified all return by that tick; none of them
\* blocks again before a further tick.
C6Broadcast == \A c \in at_tick : cpc[c] # "waiting"

\* C7: get_render_interval() called right after an accepted set_fps(F) returns
\* 1000 / F, also while the loop runs.
C7IntervalAfterSetFps ==
    [][\A k \in Controllers :
         GetRenderInterval(k) /\ k_cfg[k] # 0 => m_render_interval = Quot(Millis, k_cfg[k])]_vars

\* C8: set_fps(fps) with fps <= 0 or fps = m_fps changes nothing: no step of
\* such a call changes m_fps, m_render_interval, m_running or m_render_ready,
\* raises anything, or leaves the caller inside the call.
C8RejectedSetFps ==
    [][\A k \in Controllers : \A fps \in FpsInputs :
         /\ fps <= 0 \/ fps = m_fps
         /\ ~(/\ UNCHANGED << m_fps, m_render_interval, m_running, m_render_ready >>
              /\ UNCHANGED fail
              /\ kpc'[k] = "idle")
         => ~SetFps(k, fps)]_vars

\* after set_fps(30) a set_fps call was rejected and the interval is still 33
C8Witness == k_rej # {} /\ m_fps = 30 /\ m_render_interval = 33 /\ Live # {}

\* C9: no stale readiness survives a restart: when start() launches the loop
\* again after a stop() has returned, m_render_ready is clear.
C9NoStaleReady ==
    [][\A k \in Controllers : StartExchange(k) /\ quiet => ~m_render_ready]_vars

\* C10: ticks are coalesced: after ticks produced while no consumer was inside
\* can_render(), a consumer calling can_render() alone, with stop() not called,
\* returns at most once without a further tick.
C10Coalesced ==
    [][\A c \in Consumers :
         /\ CanRenderReturn(c)
         /\ ~stop_seen
         /\ idle_tick
         /\ \A d \in Consumers \ {c} : cpc[d] = "idle"
         => tick_pending]_vars

\* C11: start() and stop() are idempotent: a start() that finds m_running set
\* and a stop() that finds it clear change no data member, notify nobody,
\* launch and join nothing, raise nothing and return at once; and m_running
\* changes only in the exchange of start() or of stop().
C11Idempotent ==
    [][/\ \A k \in Controllers :
            ~(UNCHANGED << prog, cpc, lpc, k_thread, fail >> /\ kpc'[k] = "idle")
            => /\ m_running => ~StartExchange(k)
               /\ ~m_running => ~StopExchange(k)
       /\ m_running' # m_running
            => \E k \in Controllers : StartExchange(k) \/ StopExchange(k)]_vars

\* a start() was absorbed while the loop is alive and a consumer is blocked
C11Witness == absorbed /\ Live # {} /\ Blocked # {} /\ m_running

\* Fair scheduling of the signalling protocol: a thread that can take a step
\* takes it, the loop gets m_mutex when it is released again and again, and
\* sleep_for ends.  At most one loop is alive and at most one consumer holds
\* m_mutex, so one condition covers them all.  Calling can_render(), start()
\* or stop() is up to the application, and spurious wakeups need not happen.
LoopStep(t) ==
    \/ LoopCheck(t)
    \/ LoopSet(t)
    \/ LoopNotify(t)
    \/ LoopMeasure(t, 0)
    \/ LoopExtra(t)
    \/ LoopWake(t)

FairPace ==
    /\ SpecPace
    /\ WF_vars(\E t \in Threads : LoopStep(t))
    /\ SF_vars(\E t \in Threads : LoopLock(t))
    /\ WF_vars(\E c \in Consumers : WaitPredicate(c) \/ CanRenderReturn(c))
    /\ WF_vars(StartSpawn(Host) \/ StartAssign(Host) \/ StopNotify(Host) \/ StopJoin(Host))

\* C12: stop() terminates: a stop() that found the pacer running, in whatever
\* position the loop is, returns (the loop reads m_running clear and ends, the
\* join completes).
C12StopReturns == (kpc[Host] \in {"stop_notify", "stop_join"}) ~> (kpc[Host] = "idle" /\ quiet)

\* stop() is waiting in join while the loop is in its sleep
C12Witness == kpc[Host] = "stop_join" /\ \E t \in Threads : lpc[t] = "sleeping" /\ m_thread = t

\* Fair scheduling that also gives every consumer m_mutex when it asks for it
\* again and again
FairWait ==
    /\ FairPace
    /\ \A c \in Consumers : SF_vars(WaitReacquire(c)) /\ WF_vars(WaitPredicate(c) \/ CanRenderReturn(c))

\* C13: no starvation while running: a can_render() call made while the loop
\* runs returns, unless the pacer is stopped.
C13EveryCallReturns ==
    \A c \in Consumers : (cpc[c] # "idle" /\ Live # {} /\ m_running) ~> (cpc[c] = "idle" \/ ~m_running)

\* C14: the stored interval is 1000 div the stored frequency in every state in
\* which no set_fps() is between its two writes.
C14IntervalConsistent ==
    (\A k \in Controllers : kpc[k] # "fps_interval") => m_render_interval = Quot(Millis, m_fps)

\* C15: adaptive rule of one iteration, with I the interval the iteration read
\* for sleep_duration and W its work duration (l_sleep = I - W): if W > I the
\* iteration corrects the interval by the overrun W - I and does not sleep; if
\* W <= I it leaves the interval alone and sleeps only when I - W > 0.
C15AdaptiveRule ==
    [][\A t \in Threads : LoopExtra(t) =>
          IF l_sleep[t] < 0
            THEN lpc'[t] = "adj_read" /\ l_extra'[t] = -l_sleep[t]
            ELSE lpc'[t] = AfterAdjust(l_sleep[t])]_vars

\* The runaway: the host starts the pacer, the work of an iteration overruns
\* while the interval is positive and takes less than a millisecond once the
\* loop spins; nobody reconfigures.
RunWork(interval) == IF interval > 0 THEN OverWork + 1 ELSE 0

LoopRunaway(t) ==
    \/ LoopCheck(t)
    \/ LoopLock(t)
    \/ LoopSet(t)
    \/ LoopNotify(t)
    \/ LoopMeasure(t, RunWork(m_render_interval))
    \/ LoopExtraUpTo(t, MaxRunaway)
    \/ LoopAdjRead(t)
    \/ LoopAdjWrite(t)
    \/ LoopWake(t)

NextRunaway ==
    \/ \E t \in Threads : LoopRunaway(t)
    \/ HostStart

SpecRunaway == Init /\ [][NextRunaway]_vars

\* C16: the interval has no floor, and once it is <= 0 no step of the loop
\* raises it or enters the sleep; only set_fps() writing the interval is exempt.
C16RunawayStays ==
    [][m_render_interval <= 0 =>
          \/ \E k \in Controllers : SetFpsInterval(k)
          \/ /\ m_render_interval' <= m_render_interval
             /\ \A t \in Threads : lpc'[t] = "sleeping" => lpc[t] = "sleeping"]_vars

\* overruns have driven the interval from 16 to a value <= 0
C16Witness == m_render_interval <= 0 /\ overruns > 0

\* positions of timer_loop whose next step reads or writes m_render_interval
IntervalSteps == {"measure", "extra", "adj_read", "adj_write"}

\* C17: a context about to read or write m_render_interval holds m_mutex, so
\* the write of set_fps() never coincides with an access of the loop or with
\* the write of another set_fps().
C17IntervalUnderMutex ==
    /\ \A t \in Threads : lpc[t] \in IntervalSteps => mutex = Owner("loop", t)
    /\ \A k \in Controllers : kpc[k] = "fps_interval" =>
          /\ mutex = Owner("controller", k)
          /\ \A t \in Threads : lpc[t] \notin IntervalSteps
          /\ \A j \in Controllers \ {k} : kpc[j] # "fps_interval"

\* the race itself: set_fps() is about to write the interval while the loop is
\* between the read and the write of its correction
C17Race == \E k \in Controllers, t \in Threads : kpc[k] = "fps_interval" /\ lpc[t] = "adj_write"

\* C18: a context about to read, set or clear m_render_ready holds m_mutex: the
\* loop at its test_and_set, a consumer at its predicate and at its clear; and
\* the mutex has at most one holder.
C18FlagUnderMutex ==
    /\ \A t \in Threads : lpc[t] = "set" => mutex = Owner("loop", t)
    /\ \A c \in Consumers : cpc[c] \in {"pred", "clear"} => mutex = Owner("consumer", c)
    /\ Cardinality({t \in Threads : lpc[t] = "set"}) + Cardinality({c \in Consumers : cpc[c] \in {"pred", "clear"}}) <= 1

\* a consumer is about to clear the flag while the loop waits for the mutex
\* and another consumer is blocked
C18Witness ==
    /\ \E c \in Consumers : cpc[c] = "clear"
    /\ \E t \in Threads : lpc[t] = "lock"
    /\ Blocked # {}

\* C19: the flag means "tick occurred, not yet consumed": whenever
\* m_render_ready is set, the loop has ticked since the last clear (or since
\* construction).
C19ReadyMeansTick == m_render_ready => tick_pending

\* ------------------------------------- timer_loop, first definition
\* The header defines the class twice under one include guard; the first
\* timer_loop sleeps for the interval at the top of the iteration and has no
\* correction.  Its tick (lock, test_and_set, notify_all) is the same code.

\* while (m_running.load()); frame_start = now()
FirstLoopCheck(t) ==
    /\ ~terminated
    /\ lpc[t] = "check"
    /\ lpc' = [lpc EXCEPT ![t] = IF m_running THEN "presleep" ELSE "done"]
    /\ UNCHANGED << prog, cpc, kpc, locs, fail, ghost >>

\* std::this_thread::sleep_for(milliseconds(m_render_interval)) returns; the
\* next statement is the lock_guard of the tick
FirstLoopSleep(t) ==
    /\ ~terminated
    /\ lpc[t] = "presleep"
    /\ lpc' = [lpc EXCEPT ![t] = "lock"]
    /\ UNCHANGED << prog, cpc, kpc, locs, fail, ghost >>

\* frame_duration spans the sleep, so it is the interval plus d ms;
\* sleep_duration = milliseconds(m_render_interval) - frame_duration;
\* if (sleep_duration > 0) sleep_for(sleep_duration)
FirstLoopMeasure(t, d) ==
    /\ ~terminated
    /\ lpc[t] = "measure"
    /\ lpc' = [lpc EXCEPT ![t] = AfterAdjust(m_render_interval - (m_render_interval + d))]
    /\ UNCHANGED << prog, cpc, kpc, locs, fail, ghost >>

\* sleep_duration is never positive here, so the second sleep is not entered
LoopFirst(t) ==
    \/ FirstLoopCheck(t)
    \/ FirstLoopSleep(t)
    \/ LoopLock(t)
    \/ LoopSet(t)
    \/ LoopNotify(t)
    \/ \E d \in WorkSet : FirstLoopMeasure(t, d)

NextFirst ==
    \/ \E c \in Consumers : Consumer(c)
    \/ \E t \in Threads : LoopFirst(t)
    \/ Lifecycle(Host)

SpecFirst == Init /\ [][NextFirst]_vars

\* the sleeps of timer_loop: line 55 of the first definition, line 195 of the
\* second
SleepSteps == {"presleep", "sleeping"}

\* C20: when a sleep of the loop ends and stop() has cleared m_running in the
\* meantime, the loop goes to the test of m_running and not on to a tick.
C20RecheckAfterSleep ==
    [][\A t \in Threads :
          lpc[t] \in SleepSteps /\ lpc'[t] # lpc[t] /\ ~m_running => lpc'[t] = "check"]_vars

\* stop() has cleared m_running during the first definition's sleep and the
\* loop is about to set the flag all the same
C20Witness == \E t \in Threads : lpc[t] = "set" /\ ~m_running /\ stop_seen /\ m_thread = t

====
